---- MODULE Spec2Model ----
(***************************************************************************)
(* Model of the simulation manager of arbiter                              *)
(* (crates/simulate/src/manager.rs): the name-keyed registry of active     *)
(* agents, the backend's account records, the environment's channel        *)
(* send-ends, agent activation and the unpacking of execution results.     *)
(***************************************************************************)
EXTENDS Integers, Sequences, FiniteSets, TLC

VARIABLES
    agents,         \* SimulationManager.agents: HashMap<String, AgentType<IsActive>>
    accounts,       \* environment.evm.db(): address -> AccountInfo, for the addresses inserted
    event_senders,  \* the environment's Vec of channel send-ends (channel ids)
    channels,       \* the unbounded channels created so far: id -> queued log batches
    received,       \* per channel, the log batches its agent has taken off the receive-end
    echo,           \* the fan-out of a log batch in progress, or None
    echoed,         \* the fan-outs completed so far, each with the send-ends it went to
    constructed,    \* FALSE until SimulationManager::new() has run
    panicked,       \* TRUE once an unwrap() has aborted the process
    lastCall        \* the last operation called, its arguments and what it returned

vars == <<agents, accounts, event_senders, channels, received, echo, echoed,
          constructed, panicked, lastCall>>

----------------------------------------------------------------------------
(* Bounds of the model *)

MaxNames == 3
MaxAddress == 2
MaxPayloadLen == 2
MaxGas == 11
MaxReason == 2
MaxBatches == 1

----------------------------------------------------------------------------
(* Values *)

None == <<>>
Some(x) == <<x>>

AgentNames == <<"admin", "alice", "bob", "carol", "dave">>
Names == {AgentNames[i] : i \in 1..MaxNames}

\* Address: B160 values, written as the u64 they are built from (from_low_u64_be).
Addresses == 0..MaxAddress
AdminAddress == 1

EventFilterSets == {<<>>, <<"Transfer">>}
PriceTables == {<<>>, <<"WETH/USDC">>}

\* AgentType<NotActive>: a User or a SimpleArbitrageur not yet registered.
NotActiveAgents ==
    [kind : {"User"}, name : Names, event_filters : EventFilterSets]
    \cup
    [kind : {"SimpleArbitrageur"}, name : Names, event_filters : EventFilterSets,
     prices : PriceTables]

\* u64::MAX as four 16-bit limbs, most significant first.
U64_MAX == <<65535, 65535, 65535, 65535>>
U256_ZERO == 0

\* AccountInfo::default(): zero balance, zero nonce, no code.
AccountInfoDefault == [balance |-> 0, nonce |-> 0, code |-> None]

\* TransactSettings given to every activated agent.
PlaceholderSettings == [gas_limit |-> U64_MAX, gas_price |-> U256_ZERO]

\* ManagerError { message, output }
ManagerError(message, output) == [tag |-> "Err", message |-> message, output |-> output]
Ok(value) == [tag |-> "Ok", value |-> value]
Unit == "()"

DuplicateAddressMessage ==
    <<"Agent with that address already exists in the simulation environment.">>
DuplicateNameMessage ==
    <<"Agent with that name already exists in the simulation environment.">>

----------------------------------------------------------------------------
(* activate_agent *)

\* Mutant: the address check dropped.
AddressInUseNever(registry, new_agent_address) == FALSE

\* Mutant: all() where the code has any().
AddressInUseAll(registry, new_agent_address) ==
    \A key \in DOMAIN registry : registry[key].address = new_agent_address

\* self.agents.values().any(|agent_in_db| agent_in_db.inner().address() == new_agent_address)
AddressInUse(registry, new_agent_address) ==
    \E key \in DOMAIN registry : registry[key].address = new_agent_address

\* Mutant: the name check dropped.
NameInUseNever(registry, name) == FALSE

\* self.agents.keys().any(|name_in_db| *name_in_db == new_agent.inner().name())
NameInUse(registry, name) ==
    \E name_in_db \in DOMAIN registry : name_in_db = name

\* Mutant: the name check before the address check.
ActivateResultNameFirst(registry, new_agent, new_agent_address) ==
    IF NameInUse(registry, new_agent.name)
    THEN ManagerError(DuplicateNameMessage, None)
    ELSE IF AddressInUse(registry, new_agent_address)
    THEN ManagerError(DuplicateAddressMessage, None)
    ELSE Ok(Unit)

\* The two checks, in the order of the code; Ok(()) when both pass.
ActivateResult(registry, new_agent, new_agent_address) ==
    IF AddressInUse(registry, new_agent_address)
    THEN ManagerError(DuplicateAddressMessage, None)
    ELSE IF NameInUse(registry, new_agent.name)
    THEN ManagerError(DuplicateNameMessage, None)
    ELSE Ok(Unit)

\* Mutant: the arm of the User taken for every kind of agent.
MaterializeAsUser(new_agent, new_agent_address, account_info, event_receiver) ==
    [kind |-> "User",
     name |-> new_agent.name,
     address |-> new_agent_address,
     account_info |-> account_info,
     transact_settings |-> PlaceholderSettings,
     event_receiver |-> event_receiver,
     event_filters |-> new_agent.event_filters]

\* The IsActive counterpart built from the candidate.
Materialize(new_agent, new_agent_address, account_info, event_receiver) ==
    IF new_agent.kind = "User"
    THEN [kind |-> "User",
          name |-> new_agent.name,
          address |-> new_agent_address,
          account_info |-> account_info,
          transact_settings |-> PlaceholderSettings,
          event_receiver |-> event_receiver,
          event_filters |-> new_agent.event_filters]
    ELSE [kind |-> "SimpleArbitrageur",
          name |-> new_agent.name,
          address |-> new_agent_address,
          account_info |-> account_info,
          transact_settings |-> PlaceholderSettings,
          event_receiver |-> event_receiver,
          event_filters |-> new_agent.event_filters,
          prices |-> new_agent.prices]

\* Mutant: the entry keyed by something other than the agent's name.
RegistryKeyByKind(active_agent) == active_agent.kind

\* The key the registry entry is inserted under: new_user.name.clone().
RegistryKey(active_agent) == active_agent.name

\* HashMap::insert: a new key is added, an existing key's value is replaced.
HashMapInsert(map, key, value) ==
    [k \in DOMAIN map \cup {key} |-> IF k = key THEN value ELSE map[k]]

\* Mutant: one channel for all the agents.
NewChannelIdShared(chans) == 1

\* unbounded::<Vec<Log>>(): a fresh, empty channel; its id names both ends.
NewChannelId(chans) == Cardinality(DOMAIN chans) + 1

\* SimulationEnvironment::add_sender: the send-end is appended to the senders.
AddSender(senders, event_sender) == Append(senders, event_sender)

\* self.environment.evm.db(): the database SimulationEnvironment::new() gave the
\* evm, as an Option (environment.rs is not part of the sources at hand).
EnvironmentDb(accts) == Some(accts)

\* db().unwrap() aborts when the checks passed and the evm has no database.
ActivationPanics(new_agent, new_agent_address) ==
    /\ ActivateResult(agents, new_agent, new_agent_address).tag = "Ok"
    /\ EnvironmentDb(accounts) = None

\* Mutant: the send-end of the new channel never registered with the environment.
ActivationWithoutAddSender(new_agent, new_agent_address) ==
    LET result == ActivateResult(agents, new_agent, new_agent_address)
        id == NewChannelId(channels)
        active == Materialize(new_agent, new_agent_address, AccountInfoDefault, id)
    IN  IF result.tag = "Ok"
        THEN /\ accounts' = HashMapInsert(accounts, new_agent_address, AccountInfoDefault)
             /\ channels' = HashMapInsert(channels, id, <<>>)
             /\ agents' = HashMapInsert(agents, RegistryKey(active), active)
             /\ UNCHANGED event_senders
        ELSE UNCHANGED <<agents, accounts, event_senders, channels>>

\* Mutant: the account record inserted only where the backend has none.
ActivationKeepExistingAccount(new_agent, new_agent_address) ==
    LET result == ActivateResult(agents, new_agent, new_agent_address)
        id == NewChannelId(channels)
        active == Materialize(new_agent, new_agent_address, AccountInfoDefault, id)
    IN  IF result.tag = "Ok"
        THEN /\ accounts' = IF new_agent_address \in DOMAIN accounts
                            THEN accounts
                            ELSE HashMapInsert(accounts, new_agent_address,
                                               AccountInfoDefault)
             /\ channels' = HashMapInsert(channels, id, <<>>)
             /\ agents' = HashMapInsert(agents, RegistryKey(active), active)
             /\ event_senders' = AddSender(event_senders, id)
        ELSE UNCHANGED <<agents, accounts, event_senders, channels>>

\* Mutant: the account record inserted before the two checks.
ActivationProvisionFirst(new_agent, new_agent_address) ==
    LET result == ActivateResult(agents, new_agent, new_agent_address)
        id == NewChannelId(channels)
        active == Materialize(new_agent, new_agent_address, AccountInfoDefault, id)
    IN  /\ accounts' = HashMapInsert(accounts, new_agent_address, AccountInfoDefault)
        /\ IF result.tag = "Ok"
           THEN /\ channels' = HashMapInsert(channels, id, <<>>)
                /\ agents' = HashMapInsert(agents, RegistryKey(active), active)
                /\ event_senders' = AddSender(event_senders, id)
           ELSE UNCHANGED <<agents, event_senders, channels>>

\* The state change of activate_agent(new_agent, new_agent_address).
Activation(new_agent, new_agent_address) ==
    LET result == ActivateResult(agents, new_agent, new_agent_address)
        id == NewChannelId(channels)
        active == Materialize(new_agent, new_agent_address, AccountInfoDefault, id)
    IN  IF result.tag = "Ok" /\ ~ActivationPanics(new_agent, new_agent_address)
        THEN /\ accounts' = HashMapInsert(accounts, new_agent_address, AccountInfoDefault)
             /\ channels' = HashMapInsert(channels, id, <<>>)
             /\ agents' = HashMapInsert(agents, RegistryKey(active), active)
             /\ event_senders' = AddSender(event_senders, id)
        ELSE UNCHANGED <<agents, accounts, event_senders, channels>>

\* What is kept of a call of activate_agent: what it returned and, when it
\* succeeded, its arguments and the account record the backend held at the
\* address before the call.
ActivateCall(new_agent, new_agent_address) ==
    LET result == ActivateResult(agents, new_agent, new_agent_address)
    IN  IF result.tag = "Ok"
        THEN [op |-> "activate_agent",
              result |-> result,
              new_agent |-> new_agent,
              new_agent_address |-> new_agent_address,
              previous_account |-> IF new_agent_address \in DOMAIN accounts
                                   THEN Some(accounts[new_agent_address])
                                   ELSE None]
        ELSE [op |-> "activate_agent", result |-> result]

ActivateAgent(new_agent, new_agent_address) ==
    /\ constructed
    /\ ~panicked
    /\ echo = None
    /\ Activation(new_agent, new_agent_address)
    /\ panicked' = ActivationPanics(new_agent, new_agent_address)
    /\ lastCall' = ActivateCall(new_agent, new_agent_address)
    /\ UNCHANGED <<constructed, received, echo, echoed>>

----------------------------------------------------------------------------
(* SimulationManager::new *)

\* User::new("admin", None): a User named "admin" with no event filters.
AdminCandidate == [kind |-> "User", name |-> "admin", event_filters |-> <<>>]

\* new(): activate the admin on the empty manager and unwrap() the result.
New ==
    /\ ~constructed
    /\ ~panicked
    /\ Activation(AdminCandidate, AdminAddress)
    /\ constructed' = TRUE
    /\ panicked' = (\/ ActivationPanics(AdminCandidate, AdminAddress)
                    \/ ActivateResult(agents, AdminCandidate, AdminAddress).tag = "Err")
    /\ lastCall' = [op |-> "new",
                    result |-> ActivateResult(agents, AdminCandidate, AdminAddress)]
    /\ UNCHANGED <<received, echo, echoed>>

----------------------------------------------------------------------------
(* run_agents *)

\* run_agents() is todo!(): calling it aborts the process.
RunAgents ==
    /\ ~panicked
    /\ echo = None
    /\ panicked' = TRUE
    /\ lastCall' = [op |-> "run_agents"]
    /\ UNCHANGED <<agents, accounts, event_senders, channels, received, echo, echoed,
                   constructed>>

----------------------------------------------------------------------------
(* The environment's fan-out of log batches and the agents' receive-ends *)

\* Vec<Log>: the log batches the backend produces.
LogBatches == {<<"L1", "L2">>, <<"L3">>}

\* The receive-ends held by the agents of the registry.
ReceiveEnds == {agents[n].event_receiver : n \in DOMAIN agents}

\* The environment starts to fan out a new log batch: the loop over its
\* send-ends begins at the first one (and is over at once when there is none).
EchoLogs(logs) ==
    /\ constructed
    /\ ~panicked
    /\ echo = None
    /\ Len(echoed) < MaxBatches
    /\ IF event_senders = <<>>
       THEN /\ echoed' = Append(echoed, [logs |-> logs, to |-> ReceiveEnds])
            /\ UNCHANGED echo
       ELSE /\ echo' = Some([logs |-> logs, next |-> 1])
            /\ UNCHANGED echoed
    /\ lastCall' = [op |-> "echo_logs"]
    /\ UNCHANGED <<agents, accounts, event_senders, channels, received,
                   constructed, panicked>>

\* Sender::send on an unbounded channel: the batch is queued at the end,
\* whatever the queue holds.
ChannelSend(chans, id, logs) == [chans EXCEPT ![id] = Append(@, logs)]

\* One turn of the loop: the whole batch is sent on the next send-end; after
\* the last send-end the fan-out is complete.
EchoSend ==
    /\ echo # None
    /\ ~panicked
    /\ LET e == echo[1]
       IN  /\ channels' = ChannelSend(channels, event_senders[e.next], e.logs)
           /\ IF e.next < Len(event_senders)
              THEN /\ echo' = Some([e EXCEPT !.next = @ + 1])
                   /\ UNCHANGED echoed
              ELSE /\ echo' = None
                   /\ echoed' = Append(echoed, [logs |-> e.logs, to |-> ReceiveEnds])
    /\ UNCHANGED <<agents, accounts, event_senders, received, constructed, panicked,
                   lastCall>>

\* What the agent holding receive-end id has taken off it so far.
Received(id) == IF id \in DOMAIN received THEN received[id] ELSE <<>>

\* An agent takes the oldest queued batch off its receive-end, at its own pace.
Receive(name) ==
    /\ ~panicked
    /\ name \in DOMAIN agents
    /\ LET id == agents[name].event_receiver
       IN  /\ channels[id] # <<>>
           /\ received' = HashMapInsert(received, id, Append(Received(id), Head(channels[id])))
           /\ channels' = [channels EXCEPT ![id] = Tail(@)]
    /\ UNCHANGED <<agents, accounts, event_senders, echo, echoed, constructed, panicked,
                   lastCall>>

----------------------------------------------------------------------------
(* Transactions executed by the backend *)

\* Account records a transaction leaves behind: a balance or a nonce moved.
TouchedAccounts ==
    {[balance |-> 1, nonce |-> 0, code |-> None],
     [balance |-> 0, nonce |-> 1, code |-> None]}

\* The backend executes a transaction submitted by any party and commits
\* its effect on the account at an address; the core does not require the
\* address to be an activated agent's.
ExecuteTransaction(address, account_info) ==
    /\ constructed
    /\ ~panicked
    /\ echo = None
    /\ accounts' = HashMapInsert(accounts, address, account_info)
    /\ lastCall' = [op |-> "transact"]
    /\ UNCHANGED <<agents, event_senders, channels, received, echo, echoed,
                   constructed, panicked>>

----------------------------------------------------------------------------
(* Properties of the fan-out, checked under SpecFanOut *)

\* Everything put on channel id so far: what its agent took off it, then
\* what is still queued.
Delivered(id) == Received(id) \o channels[id]

\* The batches of the completed fan-outs that were due to receive-end id, in order.
RECURSIVE DueTo(_, _)
DueTo(history, id) ==
    IF history = <<>> THEN <<>>
    ELSE IF id \in Head(history).to
         THEN <<Head(history).logs>> \o DueTo(Tail(history), id)
         ELSE DueTo(Tail(history), id)

\* Each agent's channel holds, whole and in order, exactly the batches
\* fanned out while the agent was registered, whatever any agent has
\* received; during a fan-out the batch in progress is there or still to come.
C11_DeliveredExactly ==
    \A n \in DOMAIN agents :
        LET id == agents[n].event_receiver
        IN  \/ Delivered(id) = DueTo(echoed, id)
            \/ /\ echo # None
               /\ Delivered(id) = Append(DueTo(echoed, id), echo[1].logs)

\* A fan-out that has begun completes, every agent's channel then ending
\* with the batch.
C11_EchoCompletes ==
    (echo # None) ~>
        (/\ echo = None
         /\ echoed # <<>>
         /\ \A n \in DOMAIN agents :
                LET id == agents[n].event_receiver
                IN  /\ Delivered(id) # <<>>
                    /\ Delivered(id)[Len(Delivered(id))] = echoed[Len(echoed)].logs)

\* C11: a log batch [L1, L2] given to the environment reaches each
\* registered agent's channel, eventually, exactly once, whole and in order,
\* whatever the other agents have or have not taken off their channels.
C11_FanOut == []C11_DeliveredExactly /\ C11_EchoCompletes

\* Two agents, the single batch [L1, L2] fanned out: one agent has taken it
\* off its channel, the other has taken nothing, and both were given exactly it.
C11_Witness ==
    /\ Cardinality(DOMAIN agents) = 2
    /\ echo = None
    /\ Len(echoed) = 1
    /\ echoed[1].logs = <<"L1", "L2">>
    /\ \A n \in DOMAIN agents :
           Delivered(agents[n].event_receiver) = << <<"L1", "L2">> >>
    /\ channels[agents["admin"].event_receiver] = << <<"L1", "L2">> >>
    /\ \E n \in DOMAIN agents : channels[agents[n].event_receiver] = <<>>

----------------------------------------------------------------------------
(* Properties of activation and construction, checked under Spec *)

DuplicateAddressError == ManagerError(DuplicateAddressMessage, None)
DuplicateNameError == ManagerError(DuplicateNameMessage, None)

\* C1: in every state reachable by activations, successful or rejected, no
\* two agents of the registry have the same name.
C1_UniqueNames ==
    \A k1 \in DOMAIN agents : \A k2 \in DOMAIN agents :
        agents[k1].name = agents[k2].name => k1 = k2

\* A registry of two agents on which an activation reusing a name was rejected.
C1_Witness ==
    /\ Cardinality(DOMAIN agents) = 2
    /\ lastCall.op = "activate_agent"
    /\ lastCall.result = DuplicateNameError

\* C2: in every state reachable by activations, successful or rejected, no
\* two agents of the registry have the same address.
C2_UniqueAddresses ==
    \A k1 \in DOMAIN agents : \A k2 \in DOMAIN agents :
        agents[k1].address = agents[k2].address => k1 = k2

\* A registry of three agents on which an activation reusing an address was rejected.
C2_Witness ==
    /\ Cardinality(DOMAIN agents) = 3
    /\ lastCall.op = "activate_agent"
    /\ lastCall.result = DuplicateAddressError

\* C3: a call of activate_agent that returns an error leaves the registry,
\* the backend's account records and the environment's send-ends (and the
\* channels) exactly as they were.
C3_RejectedActivationChangesNothing ==
    [][(lastCall'.op = "activate_agent" /\ lastCall'.result.tag = "Err")
       => UNCHANGED <<agents, accounts, event_senders, channels>>]_vars

\* A duplicate-name rejection at an address the backend has no record for,
\* which is still without a record after the call.
C3_Witness ==
    /\ lastCall.op = "activate_agent"
    /\ lastCall.result = DuplicateNameError
    /\ \E a \in Addresses : a \notin DOMAIN accounts

\* C4: activate_agent at the address of an active agent returns the
\* duplicate-address error whatever the candidate's name; so does any
\* activation at the admin's address on a freshly constructed manager.
C4_DuplicateAddressRejected ==
    \A new_agent \in NotActiveAgents : \A new_agent_address \in Addresses :
        /\ (\E n \in DOMAIN agents : agents[n].address = new_agent_address)
           => ActivateResult(agents, new_agent, new_agent_address)
                  = DuplicateAddressError
        /\ lastCall.op = "new"
           => ActivateResult(agents, new_agent, AdminAddress) = DuplicateAddressError

\* On the freshly constructed manager (the admin alone) an activation was
\* rejected for its address.
C4_Witness ==
    /\ DOMAIN agents = {"admin"}
    /\ lastCall.op = "activate_agent"
    /\ lastCall.result = DuplicateAddressError

\* C5: activate_agent with the name of an active agent, at an address no
\* active agent holds, returns the duplicate-name error.
C5_DuplicateNameRejected ==
    \A new_agent \in NotActiveAgents : \A new_agent_address \in Addresses :
        (/\ \E n \in DOMAIN agents : agents[n].name = new_agent.name
         /\ \A n \in DOMAIN agents : agents[n].address # new_agent_address)
        => ActivateResult(agents, new_agent, new_agent_address) = DuplicateNameError

\* On the manager holding the admin alone, an activation at a free address
\* was rejected for its name.
C5_Witness ==
    /\ DOMAIN agents = {"admin"}
    /\ lastCall.op = "activate_agent"
    /\ lastCall.result = DuplicateNameError

\* C6: new() completes without its activation reporting an error (the
\* unwrap() does not abort), and the registry it leaves holds exactly one
\* agent: a User named "admin" at the address 0x0..01.
C6_NewYieldsAdminOnly ==
    lastCall.op = "new" =>
        /\ ~panicked
        /\ lastCall.result = Ok(Unit)
        /\ DOMAIN agents = {"admin"}
        /\ agents["admin"].kind = "User"
        /\ agents["admin"].name = "admin"
        /\ agents["admin"].address = 1

\* The state new() returns.
C6_Witness ==
    /\ constructed
    /\ lastCall.op = "new"

----------------------------------------------------------------------------
(* The scenario of alice and bob, and further properties of activation,
   checked under Spec *)

\* The freshly constructed manager after "alice" was activated.
AfterAlice == DOMAIN agents = {"admin", "alice"}

\* C12 as stated: after "alice" was activated at A on a fresh manager, a
\* second "alice" fails with duplicate name at any address, "bob" at A fails
\* with duplicate address, and "bob" at any B # A succeeds.
C12_AsStated ==
    AfterAlice =>
        \A new_agent \in NotActiveAgents : \A new_agent_address \in Addresses :
            LET result == ActivateResult(agents, new_agent, new_agent_address)
                A == agents["alice"].address
            IN  /\ new_agent.name = "alice" => result = DuplicateNameError
                /\ (new_agent.name = "bob" /\ new_agent_address = A)
                       => result = DuplicateAddressError
                /\ (new_agent.name = "bob" /\ new_agent_address # A)
                       => result = Ok(Unit)

\* The answers of activate_agent after "alice" was activated at A: a second
\* "alice" fails with duplicate name at a free address and with duplicate
\* address at A or at the admin's address; "bob" fails with duplicate
\* address at A and succeeds at a B that is neither A nor the admin's address.
C12_AfterAliceAnswers ==
    AfterAlice =>
        \A new_agent \in NotActiveAgents : \A new_agent_address \in Addresses :
            LET result == ActivateResult(agents, new_agent, new_agent_address)
                A == agents["alice"].address
                held == new_agent_address \in {A, AdminAddress}
            IN  /\ (new_agent.name = "alice" /\ ~held) => result = DuplicateNameError
                /\ (new_agent.name = "alice" /\ held) => result = DuplicateAddressError
                /\ (new_agent.name = "bob" /\ new_agent_address = A)
                       => result = DuplicateAddressError
                /\ (new_agent.name = "bob" /\ ~held) => result = Ok(Unit)

\* The successful activation of "bob" after "alice" leaves exactly the three
\* agents admin, alice and bob, bob at an address that is neither A nor the admin's.
C12_BobMakesThree ==
    (/\ AfterAlice
     /\ lastCall'.op = "activate_agent"
     /\ lastCall'.result = Ok(Unit)
     /\ "bob" \in DOMAIN agents')
    => /\ DOMAIN agents' = {"admin", "alice", "bob"}
       /\ Cardinality(DOMAIN agents') = 3
       /\ agents'["bob"].address \notin {agents["alice"].address, AdminAddress}

\* C12 (amended): the scenario with the duplicate-address cases told apart.
C12_AliceBobScenario == []C12_AfterAliceAnswers /\ [][C12_BobMakesThree]_vars

\* admin, alice, bob in the registry, activated in this order, the last call
\* having succeeded.
C12_Witness ==
    /\ DOMAIN agents = {"admin", "alice", "bob"}
    /\ agents["alice"].event_receiver = 2
    /\ agents["bob"].event_receiver = 3
    /\ lastCall.op = "activate_agent"
    /\ lastCall.result = Ok(Unit)
    /\ lastCall.new_agent.name = "bob"

\* C13: no operation of the manager (construction, activate_agent,
\* unpack_execution, run_agents) aborts the process.
C13_NeverAborts == ~panicked

NameFree(name) == \A n \in DOMAIN agents : agents[n].name # name
AddressFree(address) == \A n \in DOMAIN agents : agents[n].address # address

\* With the name and the address both unused, activate_agent returns Ok.
C14_FreeIsAccepted ==
    \A new_agent \in NotActiveAgents : \A new_agent_address \in Addresses :
        (NameFree(new_agent.name) /\ AddressFree(new_agent_address))
        => ActivateResult(agents, new_agent, new_agent_address) = Ok(Unit)

\* A successful activation adds exactly one entry, under the candidate's
\* name: of the candidate's kind, at the requested address, with the
\* candidate's filters (and prices) and the placeholder settings.
C14_OneEntryGained ==
    (lastCall'.op = "activate_agent" /\ lastCall'.result = Ok(Unit)) =>
        LET candidate == lastCall'.new_agent
            entry == agents'[candidate.name]
        IN  /\ NameFree(candidate.name)
            /\ AddressFree(lastCall'.new_agent_address)
            /\ DOMAIN agents' = DOMAIN agents \cup {candidate.name}
            /\ Cardinality(DOMAIN agents') = Cardinality(DOMAIN agents) + 1
            /\ entry.kind = candidate.kind
            /\ entry.name = candidate.name
            /\ entry.address = lastCall'.new_agent_address
            /\ entry.event_filters = candidate.event_filters
            /\ candidate.kind = "SimpleArbitrageur" =>
                   /\ "prices" \in DOMAIN entry
                   /\ entry.prices = candidate.prices
            /\ entry.transact_settings.gas_limit = <<65535, 65535, 65535, 65535>>
            /\ entry.transact_settings.gas_price = 0

\* C14: when neither the candidate's name nor the address is in use,
\* activate_agent returns Ok and the registry gains exactly one entry, the
\* candidate's IsActive counterpart with the placeholder settings.
C14_SuccessfulActivation == []C14_FreeIsAccepted /\ [][C14_OneEntryGained]_vars

\* An arbitrageur with filters and prices was activated as the third agent.
C14_Witness ==
    /\ lastCall.op = "activate_agent"
    /\ lastCall.result = Ok(Unit)
    /\ lastCall.new_agent.kind = "SimpleArbitrageur"
    /\ lastCall.new_agent.event_filters # <<>>
    /\ lastCall.new_agent.prices # <<>>
    /\ Cardinality(DOMAIN agents) = 3

\* C15: with the address and the name both held by active agents, the
\* error is the duplicate-address error, not the duplicate-name error.
C15_AddressCheckedFirst ==
    \A new_agent \in NotActiveAgents : \A new_agent_address \in Addresses :
        (~AddressFree(new_agent_address) /\ ~NameFree(new_agent.name))
        => /\ ActivateResult(agents, new_agent, new_agent_address).tag = "Err"
           /\ ActivateResult(agents, new_agent, new_agent_address).message
                  = DuplicateAddressMessage
           /\ ActivateResult(agents, new_agent, new_agent_address).message
                  # DuplicateNameMessage

\* Every name and every address is held, so the rejected call had both in
\* use; it was rejected for its address.
C15_Witness ==
    /\ \A name \in Names : ~NameFree(name)
    /\ \A address \in Addresses : ~AddressFree(address)
    /\ lastCall.op = "activate_agent"
    /\ lastCall.result.tag = "Err"
    /\ lastCall.result.message = DuplicateAddressMessage

\* No step removes or changes an entry of the registry.
C16_EntriesKept ==
    \A n \in DOMAIN agents : n \in DOMAIN agents' /\ agents'[n] = agents[n]

\* Once the manager is constructed, the admin User is at the address 0x0..01.
C16_AdminPresent ==
    constructed =>
        /\ "admin" \in DOMAIN agents
        /\ agents["admin"].kind = "User"
        /\ agents["admin"].name = "admin"
        /\ agents["admin"].address = 1

\* C16: across activate_agent and unpack_execution calls an agent once in
\* the registry stays, identical; so the admin User at 0x0..01 is always there.
C16_RegistryOnlyGrows == [][C16_EntriesKept]_vars /\ []C16_AdminPresent

\* unpack_execution was called on a registry of three agents.
C16_Witness ==
    /\ Cardinality(DOMAIN agents) = 3
    /\ lastCall.op = "unpack_execution"

\* C17: the environment holds exactly one send-end per agent of the
\* registry, and the receive-end of each send-end is held by exactly one
\* active agent.
C17_OneSenderPerAgent ==
    /\ Len(event_senders) = Cardinality(DOMAIN agents)
    /\ \A i \in 1..Len(event_senders) :
           Cardinality({n \in DOMAIN agents :
                            agents[n].event_receiver = event_senders[i]}) = 1
    /\ \A n \in DOMAIN agents :
           Cardinality({i \in 1..Len(event_senders) :
                            event_senders[i] = agents[n].event_receiver}) = 1

\* Three agents, three send-ends, after an activation that was rejected.
C17_Witness ==
    /\ Len(event_senders) = 3
    /\ Cardinality(DOMAIN agents) = 3
    /\ lastCall.op = "activate_agent"
    /\ lastCall.result.tag = "Err"

----------------------------------------------------------------------------
(* Properties of account provisioning, checked under SpecAccounts *)

\* A successful activate_agent (and the activation inside new()) sets the
\* record at the address to the default record and leaves every other
\* record of the backend as it was.
C18_DefaultRecordSet ==
    /\ (lastCall'.op = "activate_agent" /\ lastCall'.result = Ok(Unit)) =>
           LET address == lastCall'.new_agent_address
           IN  /\ DOMAIN accounts' = DOMAIN accounts \cup {address}
               /\ accounts'[address] = [balance |-> 0, nonce |-> 0, code |-> <<>>]
               /\ \A other \in DOMAIN accounts \ {address} :
                      accounts'[other] = accounts[other]
    /\ lastCall'.op = "new" =>
           /\ DOMAIN accounts' = DOMAIN accounts \cup {AdminAddress}
           /\ accounts'[AdminAddress] = [balance |-> 0, nonce |-> 0, code |-> <<>>]

\* Every active agent's address has an account record in the backend.
C18_AgentsHaveAccounts ==
    \A n \in DOMAIN agents : agents[n].address \in DOMAIN accounts

\* C18: a successful activation sets the backend's record at the address to
\* the default record, whatever it held there, and changes no other record;
\* hence every active agent's address has a record.
C18_AccountProvisioned == [][C18_DefaultRecordSet]_vars /\ []C18_AgentsHaveAccounts

\* An agent was activated at an address where a transaction had left a
\* record that is not the default one; the record is now the default one,
\* and another address still holds a record that is not.
C18_Witness ==
    /\ lastCall.op = "activate_agent"
    /\ lastCall.result = Ok(Unit)
    /\ lastCall.previous_account # None
    /\ lastCall.previous_account[1] \in TouchedAccounts
    /\ accounts[lastCall.new_agent_address] = [balance |-> 0, nonce |-> 0, code |-> <<>>]
    /\ \E other \in DOMAIN accounts : accounts[other] \in TouchedAccounts

----------------------------------------------------------------------------
(* unpack_execution *)

\* Bytes: sequences of byte values; the model draws the bytes from a few
\* values that take each branch of the Debug formatting of Bytes.
SampleBytes == {0, 34, 65, 255}

RECURSIVE SeqsUpTo(_, _)
SeqsUpTo(S, n) ==
    IF n = 0 THEN {<<>>}
    ELSE LET shorter == SeqsUpTo(S, n - 1)
         IN  shorter \cup {Append(s, x) : s \in shorter, x \in S}

Payloads == SeqsUpTo(SampleBytes, MaxPayloadLen)
GasValues == 0..MaxGas

\* revm's Halt reasons, by discriminant; the names are what {:#?} prints.
HaltNames == <<"OpcodeNotFound", "InvalidFEOpcode", "InvalidJump", "NotActivated">>
HaltReasons == 1..MaxReason

\* Output::Call(Bytes) | Output::Create(Bytes, Option<B160>)
Outputs ==
    [variant : {"Call"}, value : Payloads]
    \cup
    [variant : {"Create"}, value : Payloads,
     address : {None} \cup {Some(a) : a \in Addresses}]

\* ExecutionResult::Success | Halt | Revert, with the fields unpack_execution reads
\* and gas_used.
ExecutionResults ==
    [variant : {"Success"}, output : Outputs, gas_used : GasValues]
    \cup
    [variant : {"Halt"}, reason : HaltReasons, gas_used : GasValues]
    \cup
    [variant : {"Revert"}, output : Payloads, gas_used : GasValues]

Digits == <<"0", "1", "2", "3", "4", "5", "6", "7", "8", "9">>
HexDigits == <<"0", "1", "2", "3", "4", "5", "6", "7", "8", "9",
               "a", "b", "c", "d", "e", "f">>

\* The characters of the bytes 0x20..0x7e, one token each (0x60 by its code point).
PrintableAscii ==
    <<" ", "!", "\"", "#", "$", "%", "&", "'", "(", ")", "*", "+", ",", "-", ".", "/",
      "0", "1", "2", "3", "4", "5", "6", "7", "8", "9", ":", ";", "<", "=", ">", "?",
      "@", "A", "B", "C", "D", "E", "F", "G", "H", "I", "J", "K", "L", "M", "N", "O",
      "P", "Q", "R", "S", "T", "U", "V", "W", "X", "Y", "Z", "[", "\\", "]", "^", "_",
      "U+0060", "a", "b", "c", "d", "e", "f", "g", "h", "i", "j", "k", "l", "m", "n", "o",
      "p", "q", "r", "s", "t", "u", "v", "w", "x", "y", "z", "{", "|", "}", "~">>

\* {} of a u64: its decimal digits, most significant first.
RECURSIVE DisplayU64(_)
DisplayU64(n) ==
    IF n < 10 THEN <<Digits[n + 1]>>
    ELSE Append(DisplayU64(n \div 10), Digits[(n % 10) + 1])

\* {:#?} of a Halt reason: the variant's name.
DebugHalt(reason) == <<HaltNames[reason]>>

\* Debug of one byte inside b"...": the escapes of the bytes crate.
DebugByte(b) ==
    IF b = 10 THEN <<"\\", "n">>
    ELSE IF b = 13 THEN <<"\\", "r">>
    ELSE IF b = 9 THEN <<"\\", "t">>
    ELSE IF b = 92 \/ b = 34 THEN <<"\\", PrintableAscii[b - 31]>>
    ELSE IF b = 0 THEN <<"\\", "0">>
    ELSE IF b >= 32 /\ b < 127 THEN <<PrintableAscii[b - 31]>>
    ELSE <<"\\", "x", HexDigits[(b \div 16) + 1], HexDigits[(b % 16) + 1]>>

RECURSIVE DebugByteSeq(_)
DebugByteSeq(bytes) ==
    IF bytes = <<>> THEN <<>>
    ELSE DebugByte(Head(bytes)) \o DebugByteSeq(Tail(bytes))

\* {:#?} of Bytes: b"<escaped bytes>".
DebugBytes(bytes) == <<"b", "\"">> \o DebugByteSeq(bytes) \o <<"\"">>

\* Mutant: the gas used left out of the halt message.
HaltMessageWithoutGas(reason, gas_used) ==
    <<"This call halted for ">> \o DebugHalt(reason) \o <<".">>

\* format!("This call halted for {:#?} and used {} gas.", reason, gas_used)
HaltMessage(reason, gas_used) ==
    <<"This call halted for ">> \o DebugHalt(reason)
        \o <<" and used ">> \o DisplayU64(gas_used) \o <<" gas.">>

\* format!("This call reverted with output {:#?} and used {} gas.", output, gas_used)
RevertMessage(output, gas_used) ==
    <<"This call reverted with output ">> \o DebugBytes(output)
        \o <<" and used ">> \o DisplayU64(gas_used) \o <<" gas.">>

\* Mutant: a creation returns the created address, not the payload.
UnpackSuccessCreatedAddress(output) ==
    CASE output.variant = "Call" -> Ok(output.value)
      [] output.variant = "Create" -> Ok(output.address)

\* match output { Output::Call(value) => Ok(value), Output::Create(value, _address) => Ok(value) }
UnpackSuccess(output) ==
    CASE output.variant = "Call" -> Ok(output.value)
      [] output.variant = "Create" -> Ok(output.value)

\* ExecutionResult::Halt { reason, gas_used } => Err(..)
UnpackHalt(reason, gas_used) == ManagerError(HaltMessage(reason, gas_used), None)

\* Mutant: the revert error built like the halt error, without the payload.
UnpackRevertWithoutPayload(output, gas_used) ==
    ManagerError(RevertMessage(output, gas_used), None)

\* ExecutionResult::Revert { output, gas_used } => Err(..)
UnpackRevert(output, gas_used) ==
    ManagerError(RevertMessage(output, gas_used), Some(output))

\* Mutant: a halt handled by the revert branch, with an empty payload.
UnpackResultHaltAsRevert(execution_result) ==
    CASE execution_result.variant = "Success" ->
            UnpackSuccess(execution_result.output)
      [] execution_result.variant = "Halt" ->
            UnpackRevert(<<>>, execution_result.gas_used)
      [] execution_result.variant = "Revert" ->
            UnpackRevert(execution_result.output, execution_result.gas_used)

\* The value unpack_execution(execution_result) returns.
UnpackResult(execution_result) ==
    CASE execution_result.variant = "Success" ->
            UnpackSuccess(execution_result.output)
      [] execution_result.variant = "Halt" ->
            UnpackHalt(execution_result.reason, execution_result.gas_used)
      [] execution_result.variant = "Revert" ->
            UnpackRevert(execution_result.output, execution_result.gas_used)

\* unpack_execution(&self, execution_result): the manager is only read.
UnpackExecution(execution_result) ==
    /\ constructed
    /\ ~panicked
    /\ echo = None
    /\ lastCall' = [op |-> "unpack_execution",
                    execution_result |-> execution_result,
                    result |-> UnpackResult(execution_result)]
    /\ UNCHANGED <<agents, accounts, event_senders, channels, received, echo, echoed,
                   constructed, panicked>>

\* One execution result of each shape, for the runs that interleave
\* unpack_execution with activations.
SampleExecutionResults ==
    {[variant |-> "Success", output |-> [variant |-> "Call", value |-> <<65>>],
      gas_used |-> 0],
     [variant |-> "Success",
      output |-> [variant |-> "Create", value |-> <<255>>, address |-> Some(0)],
      gas_used |-> 0],
     [variant |-> "Halt", reason |-> 1, gas_used |-> 10],
     [variant |-> "Revert", output |-> <<34>>, gas_used |-> 10]}

----------------------------------------------------------------------------
(* Properties of unpack_execution, checked under SpecUnpack *)

\* s has t as a contiguous part.
Contains(s, t) ==
    \E i \in 0..(Len(s) - Len(t)) : SubSeq(s, i + 1, i + Len(t)) = t

Unpacked == lastCall.op = "unpack_execution"

\* C7: unpack_execution of a success outcome with payload P returns Ok(P)
\* exactly, for a call return and for a contract-creation return (whose
\* created address is discarded).
C7_SuccessReturnsPayload ==
    (Unpacked /\ lastCall.execution_result.variant = "Success") =>
        lastCall.result = Ok(lastCall.execution_result.output.value)

\* A creation with a two-byte payload and a created address was unpacked.
C7_Witness ==
    /\ Unpacked
    /\ lastCall.execution_result.variant = "Success"
    /\ lastCall.execution_result.output.variant = "Create"
    /\ Len(lastCall.execution_result.output.value) = 2
    /\ lastCall.execution_result.output.address # None
    /\ lastCall.result.tag = "Ok"

\* C8: unpack_execution of a halt outcome returns an error whose message
\* includes the halt reason and the gas used, and whose payload is None.
C8_HaltError ==
    (Unpacked /\ lastCall.execution_result.variant = "Halt") =>
        /\ lastCall.result.tag = "Err"
        /\ Contains(lastCall.result.message, <<HaltNames[lastCall.execution_result.reason]>>)
        /\ Contains(lastCall.result.message, DisplayU64(lastCall.execution_result.gas_used))
        /\ lastCall.result.output = None

\* A halt that used a two-digit amount of gas was unpacked.
C8_Witness ==
    /\ Unpacked
    /\ lastCall.execution_result.variant = "Halt"
    /\ lastCall.execution_result.gas_used >= 10
    /\ lastCall.result.tag = "Err"

\* C9: unpack_execution of a revert outcome with payload P returns an error
\* whose message includes P (as formatted) and the gas used, and whose
\* payload is Some(P).
C9_RevertError ==
    (Unpacked /\ lastCall.execution_result.variant = "Revert") =>
        /\ lastCall.result.tag = "Err"
        /\ Contains(lastCall.result.message, DebugBytes(lastCall.execution_result.output))
        /\ Contains(lastCall.result.message, DisplayU64(lastCall.execution_result.gas_used))
        /\ lastCall.result.output = Some(lastCall.execution_result.output)

\* A revert with a payload of two bytes that are escaped in the message was unpacked.
C9_Witness ==
    /\ Unpacked
    /\ lastCall.execution_result.variant = "Revert"
    /\ lastCall.execution_result.output = <<255, 34>>
    /\ lastCall.result.tag = "Err"

IsOkBranch(result) == result.tag = "Ok"
IsHaltBranch(result) ==
    /\ result.tag = "Err"
    /\ Head(result.message) = "This call halted for "
    /\ result.output = None
IsRevertBranch(result) ==
    /\ result.tag = "Err"
    /\ Head(result.message) = "This call reverted with output "
    /\ result.output # None

\* C10: every outcome kind (success-call, success-create, halt, revert) is
\* mapped to exactly one of the branches Ok(payload), halt error, revert
\* error: a success to Ok, a halt to the halt error, a revert to the revert
\* error, and to no other.
C10_TotalTaxonomy ==
    Unpacked =>
        LET kind == lastCall.execution_result.variant
            result == lastCall.result
        IN  /\ kind \in {"Success", "Halt", "Revert"}
            /\ kind = "Success" =>
                   /\ lastCall.execution_result.output.variant \in {"Call", "Create"}
                   /\ IsOkBranch(result) /\ ~IsHaltBranch(result) /\ ~IsRevertBranch(result)
            /\ kind = "Halt" =>
                   IsHaltBranch(result) /\ ~IsOkBranch(result) /\ ~IsRevertBranch(result)
            /\ kind = "Revert" =>
                   IsRevertBranch(result) /\ ~IsOkBranch(result) /\ ~IsHaltBranch(result)

\* A halt was unpacked into the halt error.
C10_Witness ==
    /\ Unpacked
    /\ lastCall.execution_result.variant = "Halt"
    /\ IsHaltBranch(lastCall.result)

----------------------------------------------------------------------------

EmptyMap == [k \in {} |-> None]

Init ==
    /\ agents = EmptyMap
    /\ accounts = EmptyMap
    /\ event_senders = <<>>
    /\ channels = EmptyMap
    /\ received = EmptyMap
    /\ echo = None
    /\ echoed = <<>>
    /\ constructed = FALSE
    /\ panicked = FALSE
    /\ lastCall = [op |-> "none"]

Next ==
    \/ New
    \/ \E new_agent \in NotActiveAgents, new_agent_address \in Addresses :
           ActivateAgent(new_agent, new_agent_address)
    \/ \E execution_result \in SampleExecutionResults :
           UnpackExecution(execution_result)
    \/ RunAgents

Spec == Init /\ [][Next]_vars

\* The manager is constructed, then unpack_execution is applied to any one
\* execution result within the bounds (it reads nothing of the manager, so
\* one application per result covers it).
NextUnpack ==
    \/ New
    \/ /\ lastCall.op = "new"
       /\ \E execution_result \in ExecutionResults :
              UnpackExecution(execution_result)

SpecUnpack == Init /\ [][NextUnpack]_vars

\* Activations of users, fan-outs of log batches and the agents' receives,
\* interleaved. The loop of a fan-out sends without waiting (the channels
\* are unbounded), so a fan-out in progress takes its next turn.
PlainUsers == [kind : {"User"}, name : Names, event_filters : {<<"Transfer">>}]

NextFanOut ==
    \/ New
    \/ \E new_agent \in PlainUsers, new_agent_address \in Addresses :
           ActivateAgent(new_agent, new_agent_address)
    \/ \E logs \in LogBatches : EchoLogs(logs)
    \/ EchoSend
    \/ \E name \in Names : Receive(name)

SpecFanOut == Init /\ [][NextFanOut]_vars /\ WF_vars(EchoSend)

\* Activations of users interleaved with the backend's transactions, which
\* may touch an address before an agent is activated there.
NextAccounts ==
    \/ New
    \/ \E new_agent \in PlainUsers, new_agent_address \in Addresses :
           ActivateAgent(new_agent, new_agent_address)
    \/ \E address \in Addresses, account_info \in TouchedAccounts :
           ExecuteTransaction(address, account_info)

SpecAccounts == Init /\ [][NextAccounts]_vars

====
